---- MODULE Spec2Model ----
(***************************************************************************)
(* State-machine model of the session bridge of zed-claude-acp             *)
(* (src/src/agent.ts, class ZedClaudeAgent).                               *)
(*                                                                         *)
(* One JavaScript event loop runs the agent.  An action of this model is   *)
(* the piece of code that runs between two suspension points (an `await`   *)
(* that really suspends, a timer, the arrival of an upstream message).     *)
(* Objects are modelled with their identity: a prompt call keeps the       *)
(* SessionState object it looked up, whatever the registry maps the id to  *)
(* later; an AbortController and an upstream stream are named by the       *)
(* prompt call that created them.                                          *)
(***************************************************************************)
EXTENDS Integers, Sequences, FiniteSets, TLC

\* ------------------------------------------------------------------ bounds
\* number of prompt() calls the client makes
MaxCalls == 2
\* number of messages the upstream streams yield, all together
MaxMsgs == 2
\* the same where the idle sweep runs too
MaxMsgsGc == 1
\* number of SessionState objects ever created
MaxObjs == 2

\* idle TTL of a session, in ticks of the clock (ACP_SESSION_TTL_MS)
sessionTtlMs == 1

\* the ids crypto.randomUUID() returns, in the order it returns them
Uuids == <<"s1">>
\* an id only the client knows (a session of an earlier process)
ExternalIds == {"x1"}
SessionIds == {Uuids[i] : i \in 1 .. Len(Uuids)} \cup ExternalIds
Calls == 1 .. MaxCalls

\* null reference (pendingPrompt, abortController) and undefined claudeSessionId
Null == 0
Undefined == "undefined"

PermissionModes == {"default", "acceptEdits", "bypassPermissions", "plan"}

\* ------------------------------------------------------------ pure helpers
\* values of process.env.ACP_PERMISSION_MODE the model starts with
RawModes == {"", "bypassPermissions", "yolo"}

\* types.ts parsePermissionMode: the closed set of four modes, else default
parsePermissionMode(raw) ==
  IF raw \in PermissionModes THEN raw ELSE "default"

\* the four in-band markers and the mode each one requests
Markers == {"[ACP:PERMISSION:ACCEPT_EDITS]", "[ACP:PERMISSION:BYPASS]",
            "[ACP:PERMISSION:DEFAULT]", "[ACP:PERMISSION:PLAN]"}

MarkerMode(tok) ==
  CASE tok = "[ACP:PERMISSION:ACCEPT_EDITS]" -> "acceptEdits"
    [] tok = "[ACP:PERMISSION:BYPASS]" -> "bypassPermissions"
    [] tok = "[ACP:PERMISSION:DEFAULT]" -> "default"
    [] tok = "[ACP:PERMISSION:PLAN]" -> "plan"
    [] OTHER -> "none"

\* A prompt is a sequence of content blocks; a text block carries a
\* sequence of tokens (words and markers).
PromptInputs ==
  { << [type |-> "text", text |-> <<"fix", "it">>] >>,
    << [type |-> "text", text |-> <<"[ACP:PERMISSION:ACCEPT_EDITS]", "go">>] >>,
    << [type |-> "image", text |-> <<>>],
       [type |-> "text", text |-> <<"[ACP:PERMISSION:BYPASS]">>] >>,
    << [type |-> "text", text |-> <<"[ACP:PERMISSION:PLAN]">>],
       [type |-> "text", text |-> <<"[ACP:PERMISSION:DEFAULT]">>] >> }

\* types.ts extractTextBlocks: the text of the text blocks, in order
RECURSIVE extractTextBlocks(_)
extractTextBlocks(blocks) ==
  IF blocks = <<>> THEN <<>>
  ELSE (IF Head(blocks).type = "text" THEN Head(blocks).text ELSE <<>>)
         \o extractTextBlocks(Tail(blocks))

\* types.ts detectPermissionMode: the mode of the marker occurring first
RECURSIVE detectPermissionMode(_)
detectPermissionMode(text) ==
  IF text = <<>> THEN "none"
  ELSE IF Head(text) \in Markers THEN MarkerMode(Head(text))
  ELSE detectPermissionMode(Tail(text))

\* number of markers in a prompt text
RECURSIVE MarkerCount(_)
MarkerCount(text) ==
  IF text = <<>> THEN 0
  ELSE (IF Head(text) \in Markers THEN 1 ELSE 0) + MarkerCount(Tail(text))

\* --- error objects: [name, message], a message being a sequence of characters
UpperCase == <<"A", "B", "C", "D", "E", "F", "G", "H", "I", "J", "K", "L", "M",
               "N", "O", "P", "Q", "R", "S", "T", "U", "V", "W", "X", "Y", "Z">>
LowerCase == <<"a", "b", "c", "d", "e", "f", "g", "h", "i", "j", "k", "l", "m",
               "n", "o", "p", "q", "r", "s", "t", "u", "v", "w", "x", "y", "z">>

\* String.prototype.toLowerCase on one character
toLowerChar(ch) ==
  IF \E i \in 1 .. Len(UpperCase) : UpperCase[i] = ch
  THEN LowerCase[CHOOSE i \in 1 .. Len(UpperCase) : UpperCase[i] = ch]
  ELSE ch

toLowerCase(s) == [i \in 1 .. Len(s) |-> toLowerChar(s[i])]

\* String.prototype.includes
includes(s, sub) ==
  \E i \in 0 .. (Len(s) - Len(sub)) :
    \A j \in 1 .. Len(sub) : s[i + j] = sub[j]

\* class TimeoutError, thrown by the timeout timer
TimeoutError ==
  [name |-> "TimeoutError",
   message |-> <<"T", "i", "m", "e", "d", " ", "o", "u", "t", " ",
                 "a", "f", "t", "e", "r", " ", "6", "0", "0", "0", "0",
                 " ", "m", "s">>]

\* reading .signal of a null abortController
NullDerefError ==
  [name |-> "TypeError",
   message |-> <<"n", "u", "l", "l", " ", "s", "i", "g", "n", "a", "l">>]

\* what the upstream stream can throw while it is drained
AbortErr ==
  [name |-> "AbortError",
   message |-> <<"c", "a", "n", "c", "e", "l", "l", "e", "d">>]

ExitErr ==
  [name |-> "Error",
   message |-> <<"p", "r", "o", "c", "e", "s", "s", " ",
                 "e", "x", "i", "t", "e", "d">>]

ConnErr ==
  [name |-> "Error",
   message |-> <<"w", "r", "i", "t", "e", " ",
                 "E", "C", "O", "N", "N", "A", "B", "O", "R", "T", "E", "D">>]

UpstreamErrors == {AbortErr, ExitErr, ConnErr}

isAbortError(error) ==
  \/ error.name = "AbortError"
  \/ includes(toLowerCase(error.message), <<"a", "b", "o", "r", "t">>)

\* messages the upstream stream can yield
UpstreamMessages ==
  { [type |-> "system", session_id |-> "conv1"],
    [type |-> "text", session_id |-> Undefined],
    [type |-> "tool_use_output", session_id |-> Undefined] }

hasSessionId(message) == message.session_id # Undefined

\* --- mapToolKind (types.ts): case-insensitive substring rules, the first
\* matching rule giving the kind
mapToolKind(toolName) ==
  LET lowerName == toLowerCase(toolName)
  IN
      IF \/ includes(lowerName, <<"r", "e", "a", "d">>)
         \/ includes(lowerName, <<"v", "i", "e", "w">>)
         \/ includes(lowerName, <<"g", "e", "t">>)
      THEN "read"
      ELSE IF \/ includes(lowerName, <<"w", "r", "i", "t", "e">>)
              \/ includes(lowerName, <<"c", "r", "e", "a", "t", "e">>)
              \/ includes(lowerName, <<"u", "p", "d", "a", "t", "e">>)
              \/ includes(lowerName, <<"e", "d", "i", "t">>)
      THEN "edit"
      ELSE IF \/ includes(lowerName, <<"d", "e", "l", "e", "t", "e">>)
              \/ includes(lowerName, <<"r", "e", "m", "o", "v", "e">>)
      THEN "delete"
      ELSE IF \/ includes(lowerName, <<"m", "o", "v", "e">>)
              \/ includes(lowerName, <<"r", "e", "n", "a", "m", "e">>)
      THEN "move"
      ELSE IF \/ includes(lowerName, <<"s", "e", "a", "r", "c", "h">>)
              \/ includes(lowerName, <<"f", "i", "n", "d">>)
              \/ includes(lowerName, <<"g", "r", "e", "p">>)
      THEN "search"
      ELSE IF \/ includes(lowerName, <<"r", "u", "n">>)
              \/ includes(lowerName, <<"e", "x", "e", "c", "u", "t", "e">>)
              \/ includes(lowerName, <<"b", "a", "s", "h">>)
      THEN "execute"
      ELSE IF \/ includes(lowerName, <<"t", "h", "i", "n", "k">>)
              \/ includes(lowerName, <<"p", "l", "a", "n">>)
              \/ includes(lowerName, <<"t", "o", "d", "o">>)
      THEN "think"
      ELSE IF \/ includes(lowerName, <<"f", "e", "t", "c", "h">>)
              \/ includes(lowerName, <<"d", "o", "w", "n", "l", "o", "a", "d">>)
              \/ includes(lowerName, <<"w", "e", "b">>)
      THEN "fetch"
      ELSE "other"

\* --- truncateLargeText: a string is a sequence of UTF-16 code units
\* code units by the number of bytes UTF-8 needs for them
TwoByteUnits == {"U+00E2", "U+00A6"}
ThreeByteUnits == {"U+20AC", "U+D55C"}
HighSurrogate == "U+D83D"
LowSurrogate == "U+DE00"

\* bytes the code unit at position i contributes to the UTF-8 encoding: a
\* surrogate pair is one 4-byte character, a lone surrogate is written as
\* U+FFFD (3 bytes)
unitBytes(str, i) ==
  CASE str[i] = HighSurrogate ->
         IF i < Len(str) /\ str[i + 1] = LowSurrogate THEN 4 ELSE 3
    [] str[i] = LowSurrogate ->
         IF i > 1 /\ str[i - 1] = HighSurrogate THEN 0 ELSE 3
    [] str[i] \in TwoByteUnits -> 2
    [] str[i] \in ThreeByteUnits -> 3
    [] OTHER -> 1

RECURSIVE rangeBytes(_, _, _)
rangeBytes(str, lo, hi) ==
  IF lo > hi THEN 0
  ELSE IF lo = hi THEN unitBytes(str, lo)
  ELSE LET mid == (lo + hi) \div 2
       IN  rangeBytes(str, lo, mid) + rangeBytes(str, mid + 1, hi)

\* Buffer.byteLength(str, 'utf8')
byteLength(str) == rangeBytes(str, 1, Len(str))

\* String.prototype.slice(0, end)
slice(str, end) == SubSeq(str, 1, end)

\* String(n) of a template literal, n >= 0
RECURSIVE decimal(_)
decimal(n) ==
  LET digit == <<"0", "1", "2", "3", "4", "5", "6", "7", "8", "9">>[(n % 10) + 1]
  IN  IF n < 10 THEN <<digit>> ELSE Append(decimal(n \div 10), digit)

\* lines 823-825: the while loop; Math.floor(end * 0.95) is (end * 95) \div 100
\* for every length a string can have
RECURSIVE trimEnd(_, _, _)
trimEnd(input, end, maxBytes) ==
  IF byteLength(slice(input, end)) > maxBytes /\ end > 0
  THEN trimEnd(input, (end * 95) \div 100, maxBytes)
  ELSE end

\* line 828: what follows `kept` in the template literal
truncationSuffix(truncatedBytes) ==
  <<"\n", "\n", "U+00E2", "U+20AC", "U+00A6", " ", "(">>
    \o decimal(truncatedBytes)
    \o <<" ", "b", "y", "t", "e", "s", " ",
         "t", "r", "u", "n", "c", "a", "t", "e", "d", ")">>

\* lines 818-829
truncateLargeText(input, maxBytes) ==
  LET bytes == byteLength(input)
  IN  IF bytes <= maxBytes THEN input
      ELSE LET end == trimEnd(input, Len(input), maxBytes)
               kept == slice(input, end)
               truncatedBytes == bytes - byteLength(kept)
           IN  kept \o truncationSuffix(truncatedBytes)

\* --- parseTimeout: an environment variable is unset or holds a sequence
\* of characters; a JavaScript number is finite with a value, or not finite
\* (NaN, Infinity)
Unset == [set |-> FALSE, text |-> <<>>]

EnvString(str) == [set |-> TRUE, text |-> str]

Digits == <<"0", "1", "2", "3", "4", "5", "6", "7", "8", "9">>

isDigit(ch) == \E i \in 1 .. Len(Digits) : Digits[i] = ch

digitValue(ch) == (CHOOSE i \in 1 .. Len(Digits) : Digits[i] = ch) - 1

\* the value of a sequence of decimal digits
RECURSIVE digitsValue(_)
digitsValue(str) ==
  IF str = <<>> THEN 0
  ELSE 10 * digitsValue(SubSeq(str, 1, Len(str) - 1)) + digitValue(str[Len(str)])

NotFinite == [finite |-> FALSE, value |-> 0]

\* Number(string): the empty string is 0, a decimal numeral with an optional
\* sign is its value, anything else is NaN or an infinity
Number(str) ==
  LET signed == str # <<>> /\ str[1] = "-"
      body == IF signed THEN Tail(str) ELSE str
  IN  IF str = <<>> THEN [finite |-> TRUE, value |-> 0]
      ELSE IF body # <<>> /\ \A i \in 1 .. Len(body) : isDigit(body[i])
      THEN [finite |-> TRUE,
            value |-> IF signed THEN 0 - digitsValue(body) ELSE digitsValue(body)]
      ELSE NotFinite

\* line 751: const def = 60000
DefaultTimeoutMs == 60000
\* line 754: n < 1000
MinTimeoutMs == 1000
\* line 755: 10 * 60 * 1000
MaxTimeoutMs == 600000

\* lines 750-756
parseTimeout(input) ==
  LET def == DefaultTimeoutMs
      n == Number(input.text)
  IN  IF ~input.set \/ input.text = <<>> THEN def
      ELSE IF ~n.finite \/ n.value < MinTimeoutMs THEN def
      ELSE IF n.value <= MaxTimeoutMs THEN n.value ELSE MaxTimeoutMs

\* ------------------------------------------------------------------- state
VARIABLES
  ACP_TIMEOUT_MS,         \* process.env.ACP_TIMEOUT_MS
  timeoutMs,              \* parseTimeout(ACP_TIMEOUT_MS), 0 before the constructor
  enableBypass,           \* ACP_ENABLE_BYPASS
  defaultPermissionMode,  \* parsePermissionMode(ACP_PERMISSION_MODE)
  showThinking,           \* ACP_THINKING_MESSAGE
  sessions,               \* the registry: session id -> SessionState object
  sessionState,           \* the SessionState objects ever created, by identity
  textBuffers,            \* session id -> [buf, timer]
  aborted,                \* the AbortControllers whose signal is aborted
  calls,                  \* the prompt() calls: position, locals, upstream stream
  updates,                \* the client.sessionUpdate calls of the last step, in order
  uuids,                  \* number of ids crypto.randomUUID() has returned
  truncation,             \* a call of truncateLargeText: arguments and results
  toolCall,               \* a tool_call update: title and kind
  lastOp                  \* the operation the last step ran

vars == <<ACP_TIMEOUT_MS, timeoutMs,
          enableBypass, defaultPermissionMode, showThinking, sessions,
          sessionState, textBuffers, aborted, calls, updates, uuids,
          truncation, toolCall, lastOp>>

config == <<ACP_TIMEOUT_MS, timeoutMs,
            enableBypass, defaultPermissionMode, showThinking>>

\* the mutable program state, as one value the handlers transform
World ==
  [sessions |-> sessions, sessionState |-> sessionState,
   textBuffers |-> textBuffers, aborted |-> aborted,
   calls |-> calls, updates |-> <<>>]

Commit(w) ==
  /\ sessions' = w.sessions
  /\ sessionState' = w.sessionState
  /\ textBuffers' = w.textBuffers
  /\ aborted' = w.aborted
  /\ calls' = w.calls
  /\ updates' = w.updates

\* queryOptions of a query() call that was not made
NoQuery == [permissionMode |-> "none", signal |-> Null, resume |-> Undefined]

\* a prompt() call that has not been made yet
NoCall ==
  [pc |-> "new", sessionId |-> "", session |-> Null, prompt |-> <<>>,
   timeoutHandle |-> "none", stopReason |-> "none", query |-> NoQuery,
   stream |-> "none", yielded |-> 0, proc |-> "none"]

\* a fresh SessionState whose mode is the literal default, whatever
\* ACP_PERMISSION_MODE says
NewSessionStateLiteral ==
  [pendingPrompt |-> Null, abortController |-> Null,
   claudeSessionId |-> Undefined, permissionMode |-> "default",
   messageCount |-> 0, idle |-> 0]

\* newSession / loadSession: the fresh SessionState.  The code reads
\* lastActiveAt only as now - lastActiveAt > sessionTtlMs, so the model keeps
\* idle = now - lastActiveAt, counted up to sessionTtlMs + 1; createdAt is
\* written once and never read.
NewSessionState ==
  [pendingPrompt |-> Null, abortController |-> Null,
   claudeSessionId |-> Undefined, permissionMode |-> defaultPermissionMode,
   messageCount |-> 0, idle |-> 0]

\* a piece of user-visible text: who produced it and which template
Piece(c, what, n) == [call |-> c, what |-> what, n |-> n]

\* ------------------------------------------------------------- text buffer
\* bufferText with `entry.buf = text` for the `+=` of line 789
bufferTextOverwriting(w, sessionId, text) ==
  [w EXCEPT !.textBuffers =
     [id \in DOMAIN w.textBuffers \cup {sessionId} |->
        IF id = sessionId THEN [buf |-> text, timer |-> TRUE]
        ELSE w.textBuffers[id]]]

\* lines 787-797
bufferText(w, sessionId, text) ==
  LET entry == IF sessionId \in DOMAIN w.textBuffers
               THEN w.textBuffers[sessionId]
               ELSE [buf |-> <<>>, timer |-> FALSE]
      set == [buf |-> entry.buf \o text, timer |-> TRUE]
  IN  [w EXCEPT !.textBuffers =
         [id \in DOMAIN w.textBuffers \cup {sessionId} |->
            IF id = sessionId THEN set ELSE w.textBuffers[id]]]

sendTextContent(w, sessionId, text) ==
  IF text = <<>> THEN w ELSE bufferText(w, sessionId, text)

sessionUpdate(w, sessionId, kind, text) ==
  [w EXCEPT !.updates =
     Append(@, [sessionId |-> sessionId, sessionUpdate |-> kind, text |-> text])]

\* flushTextBuffer without the clearTimeout and `entry.timer = null` of
\* lines 804-807
flushTextBufferKeepingTimer(w, sessionId) ==
  IF sessionId \notin DOMAIN w.textBuffers THEN w
  ELSE IF w.textBuffers[sessionId].buf = <<>> THEN w
  ELSE sessionUpdate(
         [w EXCEPT !.textBuffers[sessionId].buf = <<>>],
         sessionId, "agent_message_chunk", w.textBuffers[sessionId].buf)

\* lines 799-816
flushTextBuffer(w, sessionId) ==
  IF sessionId \notin DOMAIN w.textBuffers THEN w
  ELSE IF w.textBuffers[sessionId].buf = <<>> THEN w
  ELSE sessionUpdate(
         [w EXCEPT !.textBuffers[sessionId] = [buf |-> <<>>, timer |-> FALSE]],
         sessionId, "agent_message_chunk", w.textBuffers[sessionId].buf)

sendErrorMessage(w, sessionId, c, error) ==
  sessionUpdate(w, sessionId, "agent_message_chunk",
                << Piece(c, "system_error", 0) >>)

IsSystemError(u) ==
  Len(u.text) = 1 /\ u.text[1].what = "system_error"

\* ------------------------------------------------------------ cancellation
\* AsyncGenerator.return() while a next() is pending: the generator can
\* still settle that next(), then it is closed
streamReturn(st) == IF st = "open" THEN "returning" ELSE st

cancelCurrentPrompt(w, o) ==
  LET s == w.sessionState[o]
      w1 == IF s.abortController # Null
            THEN [w EXCEPT !.aborted = @ \cup {s.abortController}]
            ELSE w
  IN  IF s.pendingPrompt # Null
      THEN [w1 EXCEPT !.calls[s.pendingPrompt].stream = streamReturn(@),
                      !.sessionState[o].pendingPrompt = Null]
      ELSE w1

\* ---------------------------------------------------- prompt(), by stages
\* Each stage runs to the next suspension point or to the return; the
\* stages are written last first, each one continuing into the next.

\* the finally block without `session.abortController = null` (line 287)
PromptFinallyKeepingController(w, c, stop) ==
  LET o == w.calls[c].session
  IN  [w EXCEPT !.sessionState[o].pendingPrompt = Null,
                !.calls[c].pc = "done",
                !.calls[c].stopReason = stop]

\* lines 285-288: the finally block, then the return
PromptFinally(w, c, stop) ==
  LET o == w.calls[c].session
  IN  [w EXCEPT !.sessionState[o].pendingPrompt = Null,
                !.sessionState[o].abortController = Null,
                !.calls[c].pc = "done",
                !.calls[c].stopReason = stop]

\* lines 265-284: the catch block
PromptCatch(w, c, error) ==
  LET o == w.calls[c].session
      sessionId == w.calls[c].sessionId
      ac == w.sessionState[o].abortController
      w1 == IF ac # Null /\ ac \notin w.aborted
            THEN [w EXCEPT !.aborted = @ \cup {ac}]
            ELSE w
      w2 == IF error.name = "TimeoutError"
            THEN sendErrorMessage(w1, sessionId, c, error)
            ELSE w1
  IN  IF ac # Null /\ ac \in w2.aborted /\ isAbortError(error)
      THEN PromptFinally(w2, c, "cancelled")
      ELSE PromptFinally(sendErrorMessage(w2, sessionId, c, error), c, "end_turn")

\* PromptStartQuery without `queryOptions.resume = session.claudeSessionId`
\* (lines 227-229)
PromptStartQueryFresh(w, c) ==
  LET o == w.calls[c].session
      s == w.sessionState[o]
  IN  IF s.abortController = Null
      THEN PromptCatch(w, c, NullDerefError)
      ELSE [w EXCEPT !.calls[c].query =
                        [permissionMode |-> s.permissionMode,
                         signal |-> s.abortController,
                         resume |-> Undefined],
                     !.calls[c].timeoutHandle = "pending",
                     !.calls[c].stream = "open",
                     !.calls[c].proc = "running",
                     !.calls[c].pc = "racing",
                     !.sessionState[o].pendingPrompt = c]

\* lines 220-251: query options, timeout timer, query(), first next()
PromptStartQuery(w, c) ==
  LET o == w.calls[c].session
      s == w.sessionState[o]
  IN  IF s.abortController = Null
      THEN PromptCatch(w, c, NullDerefError)
      ELSE [w EXCEPT !.calls[c].query =
                        [permissionMode |-> s.permissionMode,
                         signal |-> s.abortController,
                         resume |-> s.claudeSessionId],
                     !.calls[c].timeoutHandle = "pending",
                     !.calls[c].stream = "open",
                     !.calls[c].proc = "running",
                     !.calls[c].pc = "racing",
                     !.sessionState[o].pendingPrompt = c]

\* PromptDetect with the bypass gate of line 210 left out
PromptDetectUngated(w, c) ==
  LET o == w.calls[c].session
      sessionId == w.calls[c].sessionId
      w1 == [w EXCEPT !.sessionState[o].abortController = c,
                      !.sessionState[o].idle = 0]
      newMode == detectPermissionMode(extractTextBlocks(w.calls[c].prompt))
  IN  IF newMode = "none" THEN PromptStartQuery(w1, c)
      ELSE [sendTextContent(
              [w1 EXCEPT !.sessionState[o].permissionMode = newMode],
              sessionId, << Piece(c, "mode_switched", 0) >>)
              EXCEPT !.calls[c].pc = "notice"]

\* lines 194-218: new AbortController, marker detection and mode switch
PromptDetect(w, c) ==
  LET o == w.calls[c].session
      sessionId == w.calls[c].sessionId
      w1 == [w EXCEPT !.sessionState[o].abortController = c,
                      !.sessionState[o].idle = 0]
      promptText == extractTextBlocks(w.calls[c].prompt)
      newMode == detectPermissionMode(promptText)
  IN  IF newMode = "none" THEN PromptStartQuery(w1, c)
      ELSE IF newMode = "bypassPermissions" /\ ~enableBypass
      THEN [sendTextContent(w1, sessionId, << Piece(c, "bypass_blocked", 0) >>)
              EXCEPT !.calls[c].pc = "notice"]
      ELSE [sendTextContent(
              [w1 EXCEPT !.sessionState[o].permissionMode = newMode],
              sessionId, << Piece(c, "mode_switched", 0) >>)
              EXCEPT !.calls[c].pc = "notice"]

\* PromptBegin with the thinking banner of lines 190-192 sent before the
\* lookup of lines 173-178
PromptBeginBannerFirst(w, c, sessionId, prompt) ==
  LET wb == IF showThinking
            THEN sendTextContent(w, sessionId, << Piece(c, "thinking", 0) >>)
            ELSE w
  IN  IF sessionId \notin DOMAIN w.sessions
      THEN [wb EXCEPT !.calls[c] = [@ EXCEPT !.sessionId = sessionId,
                                             !.prompt = prompt,
                                             !.pc = "done",
                                             !.stopReason = "rejected"]]
      ELSE LET o == w.sessions[sessionId]
               w0 == [wb EXCEPT !.calls[c] = [@ EXCEPT !.sessionId = sessionId,
                                                       !.prompt = prompt,
                                                       !.session = o]]
               w1 == cancelCurrentPrompt(w0, o)
           IN  IF showThinking
               THEN [w1 EXCEPT !.calls[c].pc = "thinking"]
               ELSE PromptDetect(w1, c)

\* lines 171-192: lookup, cancel the ongoing prompt, thinking banner
PromptBegin(w, c, sessionId, prompt) ==
  IF sessionId \notin DOMAIN w.sessions
  THEN [w EXCEPT !.calls[c] = [@ EXCEPT !.sessionId = sessionId,
                                        !.prompt = prompt,
                                        !.pc = "done",
                                        !.stopReason = "rejected"]]
  ELSE LET o == w.sessions[sessionId]
           w0 == [w EXCEPT !.calls[c] = [@ EXCEPT !.sessionId = sessionId,
                                                  !.prompt = prompt,
                                                  !.session = o]]
           w1 == cancelCurrentPrompt(w0, o)
       IN  IF showThinking
           THEN [sendTextContent(w1, sessionId, << Piece(c, "thinking", 0) >>)
                   EXCEPT !.calls[c].pc = "thinking"]
           ELSE PromptDetect(w1, c)

\* ------------------------------------------------- processMessageStream()
\* lines 363-413, by message type
handleClaudeMessage(w, sessionId, c, message) ==
  CASE message.type = "text" ->
         sendTextContent(w, sessionId, << Piece(c, "text", w.calls[c].yielded) >>)
    [] message.type = "tool_use_output" ->
         sessionUpdate(w, sessionId, "tool_call_update",
                       << Piece(c, "tool_completed", w.calls[c].yielded) >>)
    [] OTHER -> w

\* lines 355-357, then the race settles for the processing promise:
\* lines 253-263 and the finally block
ProcessEnd(w, c) ==
  LET w1 == flushTextBuffer([w EXCEPT !.calls[c].proc = "finished"],
                            w.calls[c].sessionId)
  IN  IF w.calls[c].pc = "racing"
      THEN PromptFinally([w1 EXCEPT !.calls[c].timeoutHandle = "cleared"],
                         c, "end_turn")
      ELSE w1

\* ProcessMessage with `session.messageCount++` (line 340) moved before the
\* test of the aborted signal (line 334)
ProcessMessageCountingFirst(w, c, message) ==
  LET o == w.calls[c].session
      ac == w.sessionState[o].abortController
      w0 == [w EXCEPT !.calls[c].yielded = @ + 1,
                      !.calls[c].stream = IF @ = "returning" THEN "closed" ELSE @,
                      !.sessionState[o].messageCount = @ + 1]
  IN  IF ac # Null /\ ac \in w.aborted
      THEN ProcessEnd([w0 EXCEPT !.calls[c].stream = "closed"], c)
      ELSE handleClaudeMessage(
             [w0 EXCEPT !.sessionState[o].claudeSessionId =
                           IF hasSessionId(message) /\ message.session_id # @
                           THEN message.session_id ELSE @],
             w.calls[c].sessionId, c, message)

\* lines 333-353: one iteration of the for-await loop
ProcessMessage(w, c, message) ==
  LET o == w.calls[c].session
      ac == w.sessionState[o].abortController
      w0 == [w EXCEPT !.calls[c].yielded = @ + 1,
                      !.calls[c].stream = IF @ = "returning" THEN "closed" ELSE @]
  IN  IF ac # Null /\ ac \in w.aborted
      THEN ProcessEnd([w0 EXCEPT !.calls[c].stream = "closed"], c)
      ELSE handleClaudeMessage(
             [w0 EXCEPT !.sessionState[o].messageCount = @ + 1,
                        !.sessionState[o].claudeSessionId =
                           IF hasSessionId(message) /\ message.session_id # @
                           THEN message.session_id ELSE @],
             w.calls[c].sessionId, c, message)

\* the stream throws: processMessageStream rejects, and so does the race
\* unless it is already settled
ProcessThrow(w, c, error) ==
  LET w0 == [w EXCEPT !.calls[c].proc = "failed", !.calls[c].stream = "closed"]
  IN  IF w.calls[c].pc = "racing"
      THEN PromptCatch(w0, c, error)
      ELSE w0

\* the timer callback without the reject of the race promise (line 237)
TimeoutFiredUnraced(w, c) ==
  [w EXCEPT !.calls[c].timeoutHandle = "fired"]

\* lines 236-238: the timeout timer fires
TimeoutFired(w, c) ==
  LET w0 == [w EXCEPT !.calls[c].timeoutHandle = "fired"]
  IN  IF w.calls[c].pc = "racing"
      THEN PromptCatch(w0, c, TimeoutError)
      ELSE w0

\* ------------------------------------------------------------ idle sweep
isActive(s) == s.pendingPrompt # Null \/ s.abortController # Null

\* gcVisit with `idle >= sessionTtlMs` for the test of line 839
gcVisitInclusive(w, id) ==
  LET s == w.sessionState[w.sessions[id]]
  IN  IF ~isActive(s) /\ s.idle >= sessionTtlMs
      THEN LET w1 == flushTextBuffer(w, id)
           IN  [w1 EXCEPT !.sessions = [x \in DOMAIN w.sessions \ {id} |-> w.sessions[x]],
                          !.textBuffers = [x \in DOMAIN w1.textBuffers \ {id} |->
                                             w1.textBuffers[x]]]
      ELSE w

\* gcVisit without the flush of line 841
gcVisitDropping(w, id) ==
  LET s == w.sessionState[w.sessions[id]]
  IN  IF ~isActive(s) /\ s.idle > sessionTtlMs
      THEN [w EXCEPT !.sessions = [x \in DOMAIN w.sessions \ {id} |-> w.sessions[x]],
                     !.textBuffers = [x \in DOMAIN w.textBuffers \ {id} |->
                                        w.textBuffers[x]]]
      ELSE w

\* lines 836-844: the body of the sweep loop for one registry entry
gcVisit(w, id) ==
  LET s == w.sessionState[w.sessions[id]]
      idle == s.idle
  IN  IF ~isActive(s) /\ idle > sessionTtlMs
      THEN LET w1 == flushTextBuffer(w, id)
           IN  [w1 EXCEPT !.sessions = [x \in DOMAIN w.sessions \ {id} |-> w.sessions[x]],
                          !.textBuffers = [x \in DOMAIN w1.textBuffers \ {id} |->
                                             w1.textBuffers[x]]]
      ELSE w

\* the registry's ids in Map iteration order (insertion order)
RECURSIVE insertionOrder(_, _)
insertionOrder(reg, ids) ==
  IF ids = {} THEN <<>>
  ELSE LET first == CHOOSE id \in ids : \A x \in ids : reg[id] <= reg[x]
       IN  <<first>> \o insertionOrder(reg, ids \ {first})

RECURSIVE gcSweep(_, _)
gcSweep(w, order) ==
  IF order = <<>> THEN w
  ELSE gcSweep(gcVisit(w, Head(order)), Tail(order))

\* ----------------------------------------------------------------- actions
Op(op, sessionId, c) == [op |-> op, sessionId |-> sessionId, call |-> c]

\* the client may only name the ids it was given or brought along
Known(id) == id \in ExternalIds \/ \E i \in 1 .. uuids : Uuids[i] = id

\* sessions.set(id, fresh SessionState)
registerSession(w, id) ==
  [w EXCEPT !.sessionState = Append(@, NewSessionState),
            !.sessions = [x \in DOMAIN w.sessions \cup {id} |->
                            IF x = id THEN Len(w.sessionState) + 1
                            ELSE w.sessions[x]]]

\* lines 110-131
NewSession ==
  /\ Len(sessionState) < MaxObjs
  /\ uuids < Len(Uuids)
  /\ uuids' = uuids + 1
  /\ Commit(registerSession(World, Uuids[uuids + 1]))
  /\ lastOp' = Op("newSession", Uuids[uuids + 1], 0)
  /\ UNCHANGED <<config, truncation, toolCall>>

\* loadSession that stamps lastActiveAt of a session it finds
loadSessionTouching(w, id) ==
  IF id \in DOMAIN w.sessions
  THEN [w EXCEPT !.sessionState[w.sessions[id]].idle = 0]
  ELSE registerSession(w, id)

\* loadSession without the `sessions.has` test of line 140
loadSessionAlways(w, id) == registerSession(w, id)

\* lines 136-158
loadSession(w, id) ==
  IF id \in DOMAIN w.sessions THEN w ELSE registerSession(w, id)

LoadSession(id) ==
  /\ Known(id)
  /\ id \in DOMAIN sessions \/ Len(sessionState) < MaxObjs
  /\ Commit(loadSession(World, id))
  /\ lastOp' = Op("loadSession", id, 0)
  /\ UNCHANGED <<config, uuids, truncation, toolCall>>

\* the client calls prompt(): lines 171-192, and on when nothing suspends
Prompt(c, sessionId, prompt) ==
  /\ Known(sessionId)
  /\ calls[c].pc = "new"
  /\ \A d \in Calls : d < c => calls[d].pc # "new"
  /\ Commit(PromptBegin(World, c, sessionId, prompt))
  /\ lastOp' = Op("prompt", sessionId, c)
  /\ UNCHANGED <<config, uuids, truncation, toolCall>>

\* prompt() resumes after `await sendTextContent(...)`
PromptResume(c) ==
  /\ \/ /\ calls[c].pc = "thinking"
        /\ Commit(PromptDetect(World, c))
     \/ /\ calls[c].pc = "notice"
        /\ Commit(PromptStartQuery(World, c))
  /\ lastOp' = Op("promptResume", calls[c].sessionId, c)
  /\ UNCHANGED <<config, uuids, truncation, toolCall>>

\* cancel that also flushes the session's text buffer
cancelFlushing(w, sessionId) ==
  IF sessionId \notin DOMAIN w.sessions THEN w
  ELSE flushTextBuffer(cancelCurrentPrompt(w, w.sessions[sessionId]), sessionId)

\* cancel that stops the prompts of every registered session
cancelEverySession(w, sessionId) ==
  IF sessionId \notin DOMAIN w.sessions THEN w
  ELSE LET RECURSIVE all(_, _)
           all(v, ids) ==
             IF ids = {} THEN v
             ELSE LET id == CHOOSE x \in ids : TRUE
                  IN  all(cancelCurrentPrompt(v, v.sessions[id]), ids \ {id})
       IN  all(w, DOMAIN w.sessions)

\* lines 294-305
cancel(w, sessionId) ==
  IF sessionId \notin DOMAIN w.sessions THEN w
  ELSE cancelCurrentPrompt(w, w.sessions[sessionId])

Cancel(sessionId) ==
  /\ Known(sessionId)
  /\ Commit(cancel(World, sessionId))
  /\ lastOp' = Op("cancel", sessionId, 0)
  /\ UNCHANGED <<config, uuids, truncation, toolCall>>

RECURSIVE Sum(_, _)
Sum(f, S) ==
  IF S = {} THEN 0
  ELSE LET x == CHOOSE y \in S : TRUE IN f[x] + Sum(f, S \ {x})

\* messages yielded so far by all the streams
Yielded == Sum([c \in Calls |-> calls[c].yielded], Calls)

\* the upstream stream settles the pending next() with a message
StreamMessage(c, message, budget) ==
  /\ calls[c].proc = "running"
  /\ calls[c].stream \in {"open", "returning"}
  /\ Yielded < budget
  /\ Commit(ProcessMessage(World, c, message))
  /\ lastOp' = Op("streamMessage", calls[c].sessionId, c)
  /\ UNCHANGED <<config, uuids, truncation, toolCall>>

\* the upstream stream is done
StreamEnd(c) ==
  /\ calls[c].proc = "running"
  /\ Commit(ProcessEnd([World EXCEPT !.calls[c].stream = "closed"], c))
  /\ lastOp' = Op("streamEnd", calls[c].sessionId, c)
  /\ UNCHANGED <<config, uuids, truncation, toolCall>>

\* the upstream stream throws; an AbortError answers the aborted signal
StreamThrow(c, error) ==
  /\ calls[c].proc = "running"
  /\ calls[c].stream \in {"open", "returning"}
  /\ error.name = "AbortError" => calls[c].query.signal \in aborted
  /\ Commit(ProcessThrow(World, c, error))
  /\ lastOp' = Op("streamThrow", calls[c].sessionId, c)
  /\ UNCHANGED <<config, uuids, truncation, toolCall>>

\* the timeout timer of a prompt fires
Timeout(c) ==
  /\ calls[c].timeoutHandle = "pending"
  /\ Commit(TimeoutFired(World, c))
  /\ lastOp' = Op("timeout", calls[c].sessionId, c)
  /\ UNCHANGED <<config, uuids, truncation, toolCall>>

\* lines 793-795: the flush timer of a text buffer fires
FlushTimer(id) ==
  /\ id \in DOMAIN textBuffers
  /\ textBuffers[id].timer
  /\ Commit(flushTextBuffer(World, id))
  /\ lastOp' = Op("flushTimer", id, 0)
  /\ UNCHANGED <<config, uuids, truncation, toolCall>>

\* lines 833-846: one run of the idle sweep
SessionGc ==
  /\ Commit(gcSweep(World, insertionOrder(sessions, DOMAIN sessions)))
  /\ lastOp' = Op("sessionGc", "", 0)
  /\ UNCHANGED <<config, uuids, truncation, toolCall>>

\* time passes: every session is idle one tick longer
Tick ==
  /\ \E o \in 1 .. Len(sessionState) : sessionState[o].idle <= sessionTtlMs
  /\ sessionState' = [o \in 1 .. Len(sessionState) |->
                        [sessionState[o] EXCEPT !.idle =
                           IF @ <= sessionTtlMs THEN @ + 1 ELSE @]]
  /\ updates' = <<>>
  /\ lastOp' = Op("tick", "", 0)
  /\ UNCHANGED <<config, sessions, textBuffers, aborted, calls, uuids,
                 truncation, toolCall>>

\* no tool_call update built
NoToolCall == [pc |-> "none", title |-> <<>>, kind |-> "none"]

\* truncateLargeText not called
NoTruncation ==
  [pc |-> "none", input |-> <<>>, maxBytes |-> 0, output |-> <<>>, again |-> <<>>]

\* lines 53-78: the state the constructor leaves
Init ==
  /\ ACP_TIMEOUT_MS = Unset
  /\ timeoutMs = parseTimeout(ACP_TIMEOUT_MS)
  /\ truncation = NoTruncation
  /\ toolCall = NoToolCall
  /\ enableBypass \in BOOLEAN
  /\ defaultPermissionMode \in {parsePermissionMode(raw) : raw \in RawModes}
  /\ showThinking \in BOOLEAN
  /\ sessions = [x \in {} |-> Null]
  /\ sessionState = <<>>
  /\ textBuffers = [x \in {} |-> Null]
  /\ aborted = {}
  /\ calls = [c \in Calls |-> NoCall]
  /\ updates = <<>>
  /\ uuids = 0
  /\ lastOp = Op("init", "", 0)

\* what the client does, over the ids and prompts it uses
Client(ids, loadIds, prompts) ==
  \/ NewSession
  \/ \E id \in loadIds : LoadSession(id)
  \/ \E c \in Calls, id \in ids, p \in prompts : Prompt(c, id, p)
  \/ \E c \in Calls : PromptResume(c)
  \/ \E id \in ids : Cancel(id)

\* what the upstream streams do
Upstream(messages, errors, budget) ==
  \/ \E c \in Calls, m \in messages : StreamMessage(c, m, budget)
  \/ \E c \in Calls : StreamEnd(c)
  \/ \E c \in Calls, e \in errors : StreamThrow(c, e)

\* the timers of prompt() and of the text buffers
Timers ==
  \/ \E c \in Calls : Timeout(c)
  \/ \E id \in SessionIds : FlushTimer(id)

\* the idle sweep and the clock it reads
Sweep ==
  \/ SessionGc
  \/ Tick

PlainPrompts == { << [type |-> "text", text |-> <<"fix", "it">>] >> }

UuidSet == {Uuids[i] : i \in 1 .. Len(Uuids)}

\* default permission configuration
InitOne ==
  /\ Init
  /\ enableBypass
  /\ defaultPermissionMode = "default"

\* prompts and cancels on one session and on an unknown id, no idle sweep
Next ==
  \/ Client(SessionIds, UuidSet, PlainPrompts)
  \/ Upstream(UpstreamMessages, UpstreamErrors, MaxMsgs)
  \/ Timers

Spec == InitOne /\ [][Next]_vars

SwitchPrompts ==
  PlainPrompts \cup
    { << [type |-> "text", text |-> <<"[ACP:PERMISSION:ACCEPT_EDITS]", "go">>] >> }

\* default permission configuration, no thinking banner
InitGc ==
  /\ InitOne
  /\ ~showThinking

\* one session with the idle sweep, a swept session being loaded again
NextGc ==
  \/ Client(UuidSet, UuidSet, SwitchPrompts)
  \/ Upstream(UpstreamMessages, UpstreamErrors, MaxMsgsGc)
  \/ Timers
  \/ Sweep

SpecGc == InitGc /\ [][NextGc]_vars

\* every permission configuration and every prompt input, no thinking banner
NextMode ==
  \/ Client(UuidSet, UuidSet, PromptInputs)
  \/ Upstream({[type |-> "system", session_id |-> "conv1"]}, {ExitErr}, MaxMsgsGc)
  \/ Timers

InitMode ==
  /\ Init
  /\ ~showThinking

SpecMode == InitMode /\ [][NextMode]_vars

\* two sessions in the registry with the idle sweep; plain prompts without
\* the thinking banner, streams that yield nothing and end
NextReg ==
  \/ NewSession
  \/ \E id \in SessionIds : LoadSession(id)
  \/ \E c \in Calls, id \in SessionIds : \E p \in PlainPrompts : Prompt(c, id, p)
  \/ \E id \in SessionIds : Cancel(id)
  \/ \E c \in Calls : StreamEnd(c)
  \/ \E c \in Calls : Timeout(c)
  \/ Sweep

\* every default permission mode, bypass allowed, no thinking banner
InitReg ==
  /\ Init
  /\ enableBypass
  /\ ~showThinking

SpecReg == InitReg /\ [][NextReg]_vars

\* messages that carry a conversation id, and one that carries none
ConversationMessages ==
  { [type |-> "system", session_id |-> "conv1"],
    [type |-> "system", session_id |-> "conv2"],
    [type |-> "result", session_id |-> Undefined] }

\* prompts on one session whose streams name the conversation, with the idle
\* sweep; no banner and no text, so no buffer and no flush timer
NextResume ==
  \/ NewSession
  \/ \E id \in UuidSet : LoadSession(id)
  \/ \E c \in Calls, id \in UuidSet : \E p \in PlainPrompts : Prompt(c, id, p)
  \/ \E id \in UuidSet : Cancel(id)
  \/ \E c \in Calls, m \in ConversationMessages : StreamMessage(c, m, MaxMsgs)
  \/ \E c \in Calls : StreamEnd(c)
  \/ \E c \in Calls : StreamThrow(c, ExitErr)
  \/ \E c \in Calls : Timeout(c)
  \/ Sweep

SpecResume == InitGc /\ [][NextResume]_vars

\* --- truncateLargeText on its own
\* longest short text, in code units
MaxTextLen == 3
\* how many characters the long texts go beyond the smallest budget
MaxOver == 40
\* longest run of one-byte characters in front of a long text
MaxLead == 1
\* lower limit of ACP_MAX_TOOL_OUTPUT_BYTES (line 61)
MinToolOutputBytes == 1024

\* the code units of the short texts
TextUnits == {"a", "U+D55C", HighSurrogate, LowSurrogate}

\* one character each: one byte, three bytes, a surrogate pair of four bytes
TextChars == {<<"a">>, <<"U+D55C">>, <<HighSurrogate, LowSurrogate>>}

\* n times the character ch behind lead one-byte characters
repeat(ch, n, lead) ==
  [i \in 1 .. (lead + n * Len(ch)) |->
     IF i <= lead THEN "a" ELSE ch[((i - lead - 1) % Len(ch)) + 1]]

\* the texts handed to truncateLargeText with the smallest budget the
\* configuration allows: short ones, which fit, and runs of one character
\* whose UTF-8 length is just over the budget
TruncationInputs ==
  { [input |-> t, maxBytes |-> MinToolOutputBytes] :
      t \in UNION {[1 .. k -> TextUnits] : k \in 0 .. MaxTextLen} }
  \cup
  { [input |-> repeat(ch, (MinToolOutputBytes \div byteLength(ch)) + k, lead),
     maxBytes |-> MinToolOutputBytes] :
      ch \in TextChars, k \in 1 .. MaxOver, lead \in 0 .. MaxLead }

\* safe = this.truncateLargeText(text, this.maxToolOutputBytes)
Truncate ==
  /\ truncation.pc = "called"
  /\ truncation' = [truncation EXCEPT
                      !.pc = "once",
                      !.output = truncateLargeText(truncation.input,
                                                   truncation.maxBytes)]
  /\ UNCHANGED <<config, sessions, sessionState, textBuffers, aborted, calls,
                 updates, uuids, toolCall, lastOp>>

\* truncateLargeText applied to its own result
TruncateAgain ==
  /\ truncation.pc = "once"
  /\ truncation' = [truncation EXCEPT
                      !.pc = "twice",
                      !.again = truncateLargeText(truncation.output,
                                                  truncation.maxBytes)]
  /\ UNCHANGED <<config, sessions, sessionState, textBuffers, aborted, calls,
                 updates, uuids, toolCall, lastOp>>

InitTruncate ==
  /\ \E in \in TruncationInputs :
       truncation = [pc |-> "called", input |-> in.input,
                     maxBytes |-> in.maxBytes, output |-> <<>>, again |-> <<>>]
  /\ toolCall = NoToolCall
  /\ ACP_TIMEOUT_MS = Unset
  /\ timeoutMs = parseTimeout(ACP_TIMEOUT_MS)
  /\ enableBypass = TRUE
  /\ defaultPermissionMode = "default"
  /\ showThinking = TRUE
  /\ sessions = [x \in {} |-> Null]
  /\ sessionState = <<>>
  /\ textBuffers = [x \in {} |-> Null]
  /\ aborted = {}
  /\ calls = [c \in Calls |-> NoCall]
  /\ updates = <<>>
  /\ uuids = 0
  /\ lastOp = Op("init", "", 0)

NextTruncate ==
  \/ Truncate
  \/ TruncateAgain

SpecTruncate == InitTruncate /\ [][NextTruncate]_vars

\* --- parseTimeout on its own
\* how far the numerals reach below and above each limit
MaxAround == 30

\* the numerals of the integers within MaxAround of a
around(a) ==
  { IF n >= 0 THEN decimal(n) ELSE <<"-">> \o decimal(0 - n) :
      n \in (a - MaxAround) .. (a + MaxAround) }

\* values of ACP_TIMEOUT_MS: unset, empty, not a number, infinite, and the
\* numerals around zero, the lower limit, the default and the upper limit
TimeoutInputs ==
  {Unset} \cup
  { EnvString(str) :
      str \in {<<>>, <<"a", "b", "c">>, <<"1", "s">>,
               <<"I", "n", "f", "i", "n", "i", "t", "y">>}
              \cup around(0) \cup around(MinTimeoutMs)
              \cup around(DefaultTimeoutMs) \cup around(MaxTimeoutMs) }

\* line 58: this.timeoutMs = this.parseTimeout(process.env.ACP_TIMEOUT_MS)
Construct ==
  /\ timeoutMs = 0
  /\ timeoutMs' = parseTimeout(ACP_TIMEOUT_MS)
  /\ UNCHANGED <<ACP_TIMEOUT_MS, enableBypass, defaultPermissionMode,
                 showThinking, sessions, sessionState, textBuffers, aborted,
                 calls, updates, uuids, truncation, toolCall, lastOp>>

InitTimeout ==
  /\ ACP_TIMEOUT_MS \in TimeoutInputs
  /\ timeoutMs = 0
  /\ truncation = NoTruncation
  /\ toolCall = NoToolCall
  /\ enableBypass = TRUE
  /\ defaultPermissionMode = "default"
  /\ showThinking = TRUE
  /\ sessions = [x \in {} |-> Null]
  /\ sessionState = <<>>
  /\ textBuffers = [x \in {} |-> Null]
  /\ aborted = {}
  /\ calls = [c \in Calls |-> NoCall]
  /\ updates = <<>>
  /\ uuids = 0
  /\ lastOp = Op("init", "", 0)

NextTimeout == Construct

SpecTimeout == InitTimeout /\ [][NextTimeout]_vars

\* --- mapToolKind on its own
\* most words a generated tool name is made of
MaxWords == 2

\* tool names of the upstream engine and of the examples; the empty name is
\* the default of a tool_use_start message without tool_name
ToolNames ==
  {<<"R", "e", "a", "d", "F", "i", "l", "e">>,
   <<"T", "o", "d", "o", "W", "r", "i", "t", "e">>,
   <<"B", "a", "s", "h">>,
   <<"W", "e", "b", "F", "e", "t", "c", "h">>,
   <<"U", "n", "k", "n", "o", "w", "n", "T", "o", "o", "l", "1", "2", "3">>,
   <<"R", "e", "a", "d">>,
   <<"W", "r", "i", "t", "e">>,
   <<"E", "d", "i", "t">>,
   <<"M", "u", "l", "t", "i", "E", "d", "i", "t">>,
   <<"G", "l", "o", "b">>,
   <<"G", "r", "e", "p">>,
   <<"L", "S">>,
   <<"W", "e", "b", "S", "e", "a", "r", "c", "h">>,
   <<"T", "a", "s", "k">>,
   <<"N", "o", "t", "e", "b", "o", "o", "k", "E", "d", "i", "t">>,
   <<"E", "x", "i", "t", "P", "l", "a", "n", "M", "o", "d", "e">>,
   <<"K", "i", "l", "l", "S", "h", "e", "l", "l">>,
   <<>>}

\* the words of the rules, capitalised as in a tool name
ToolWords ==
  {<<"R", "e", "a", "d">>,
   <<"V", "i", "e", "w">>,
   <<"G", "e", "t">>,
   <<"W", "r", "i", "t", "e">>,
   <<"C", "r", "e", "a", "t", "e">>,
   <<"U", "p", "d", "a", "t", "e">>,
   <<"E", "d", "i", "t">>,
   <<"D", "e", "l", "e", "t", "e">>,
   <<"R", "e", "m", "o", "v", "e">>,
   <<"M", "o", "v", "e">>,
   <<"R", "e", "n", "a", "m", "e">>,
   <<"S", "e", "a", "r", "c", "h">>,
   <<"F", "i", "n", "d">>,
   <<"G", "r", "e", "p">>,
   <<"R", "u", "n">>,
   <<"E", "x", "e", "c", "u", "t", "e">>,
   <<"B", "a", "s", "h">>,
   <<"T", "h", "i", "n", "k">>,
   <<"P", "l", "a", "n">>,
   <<"T", "o", "d", "o">>,
   <<"F", "e", "t", "c", "h">>,
   <<"D", "o", "w", "n", "l", "o", "a", "d">>,
   <<"W", "e", "b">>}

\* the names made of at most n words
RECURSIVE wordNames(_)
wordNames(n) ==
  IF n = 0 THEN {<<>>}
  ELSE wordNames(n - 1) \cup {a \o b : a \in wordNames(n - 1), b \in ToolWords}

\* lines 476-486, 505-515: the tool_call update with kind: mapToolKind(name)
ToolCall ==
  /\ toolCall.pc = "called"
  /\ toolCall' = [toolCall EXCEPT !.pc = "sent",
                                  !.kind = mapToolKind(toolCall.title)]
  /\ UNCHANGED <<config, sessions, sessionState, textBuffers, aborted, calls,
                 updates, uuids, truncation, lastOp>>

InitToolKind ==
  /\ \E name \in ToolNames \cup wordNames(MaxWords) :
       toolCall = [pc |-> "called", title |-> name, kind |-> "none"]
  /\ truncation = NoTruncation
  /\ ACP_TIMEOUT_MS = Unset
  /\ timeoutMs = parseTimeout(ACP_TIMEOUT_MS)
  /\ enableBypass = TRUE
  /\ defaultPermissionMode = "default"
  /\ showThinking = TRUE
  /\ sessions = [x \in {} |-> Null]
  /\ sessionState = <<>>
  /\ textBuffers = [x \in {} |-> Null]
  /\ aborted = {}
  /\ calls = [c \in Calls |-> NoCall]
  /\ updates = <<>>
  /\ uuids = 0
  /\ lastOp = Op("init", "", 0)

NextToolKind == ToolCall

SpecToolKind == InitToolKind /\ [][NextToolKind]_vars

\* ------------------------------------------------------------------ claims
\* the text of the prompt of a call
PromptText(c) == extractTextBlocks(calls[c].prompt)

SystemErrors(us) == {i \in 1 .. Len(us) : IsSystemError(us[i])}

\* C1: when a later prompt of a session has started its upstream query while
\* an earlier prompt of the session is still in progress, the earlier query
\* has stopped processing messages: a message its stream yields from then on
\* is not handled (the drain loop is left).
C1_EarlierQueryStopped ==
  \A c, d \in Calls :
    ( /\ c < d
      /\ calls[c].session # Null
      /\ calls[c].session = calls[d].session
      /\ calls[c].pc = "racing"
      /\ calls[d].proc = "running"
      /\ lastOp = Op("streamMessage", calls[c].sessionId, c) )
    => calls[c].proc # "running"

\* C2: a run of the idle sweep never removes the registry entry of a session
\* on which a prompt has started its upstream query and has not returned.
C2_SweepKeepsInFlight ==
  [][ lastOp'.op = "sessionGc" =>
        \A c \in Calls :
          ( /\ calls[c].pc = "racing"
            /\ calls[c].sessionId \in DOMAIN sessions
            /\ sessions[calls[c].sessionId] = calls[c].session )
          => calls[c].sessionId \in DOMAIN sessions' ]_vars

\* C3: a prompt in progress on whose session cancel has just fired the
\* prompt's own token returns, when it returns next, stopReason cancelled.
C3_CancelledAfterCancel ==
  [][ \A c \in Calls :
        ( /\ lastOp = Op("cancel", calls[c].sessionId, 0)
          /\ calls[c].pc = "racing"
          /\ sessionState[calls[c].session].abortController = c
          /\ c \in aborted
          /\ calls'[c].pc = "done" )
        => calls'[c].stopReason = "cancelled" ]_vars

\* C4: a prompt returns stopReason cancelled only if the token of its query
\* was fired before the step that makes it return.
C4_CancelledOnlyAfterCancel ==
  [][ \A c \in Calls :
        ( /\ calls[c].pc = "racing"
          /\ calls'[c].pc = "done"
          /\ calls'[c].stopReason = "cancelled" )
        => calls[c].query.signal \in aborted ]_vars

\* C5: when the timeout timer fires for a prompt that is waiting on its
\* query, the token not fired before, the step fires the token, emits
\* exactly one system-error update and returns end_turn.
C5_TimeoutOneError ==
  [][ \A c \in Calls :
        ( /\ calls[c].pc = "racing"
          /\ sessionState[calls[c].session].abortController = c
          /\ c \notin aborted
          /\ lastOp' = Op("timeout", calls[c].sessionId, c) )
        => ( /\ c \in aborted'
             /\ Cardinality(SystemErrors(updates')) = 1
             /\ calls'[c].pc = "done"
             /\ calls'[c].stopReason = "end_turn" ) ]_vars

\* C6: a failure (the stream throws, the timeout fires) that reaches a prompt
\* waiting on its query, the token not fired before, makes the prompt emit a
\* system-error update and return end_turn.
C6_FailureVisibleEndTurn ==
  [][ \A c \in Calls :
        ( /\ calls[c].pc = "racing"
          /\ sessionState[calls[c].session].abortController = c
          /\ c \notin aborted
          /\ lastOp'.op \in {"streamThrow", "timeout"}
          /\ lastOp'.call = c )
        => ( /\ SystemErrors(updates') # {}
             /\ calls'[c].pc = "done"
             /\ calls'[c].stopReason = "end_turn" ) ]_vars

\* C7: prompt on an id that is not in the registry rejects, and cancel on
\* such an id returns; neither emits an update nor changes the registry, a
\* session, a text buffer or its timer, a token, or another prompt call.
C7_UnknownIdNoEffect ==
  [][ ( /\ lastOp'.op \in {"prompt", "cancel"}
        /\ lastOp'.sessionId \notin DOMAIN sessions )
      => ( /\ UNCHANGED <<sessions, sessionState, textBuffers, aborted>>
           /\ updates' = <<>>
           /\ lastOp'.op = "cancel" => calls' = calls
           /\ lastOp'.op = "prompt" =>
                /\ calls'[lastOp'.call].pc = "done"
                /\ calls'[lastOp'.call].stopReason = "rejected"
                /\ calls'[lastOp'.call].query = NoQuery
                /\ \A d \in Calls \ {lastOp'.call} : calls'[d] = calls[d] ) ]_vars

\* a prompt was rejected and a cancel on the unknown id has just returned,
\* while a prompt of a known session waits on its query
C7_Witness ==
  /\ lastOp = Op("cancel", "x1", 0)
  /\ "x1" \notin DOMAIN sessions
  /\ \E c, d \in Calls :
       /\ calls[c].stopReason = "rejected"
       /\ calls[d].pc = "racing"

\* C8: with the bypass flag disabled no session has permissionMode
\* bypassPermissions and no upstream query is started with it.
C8_NoBypassWhenDisabled ==
  ~enableBypass =>
    /\ \A o \in 1 .. Len(sessionState) :
         sessionState[o].permissionMode # "bypassPermissions"
    /\ \A c \in Calls : calls[c].query.permissionMode # "bypassPermissions"

C10_ModeChangesOnlyByMarker ==
  [][ LET p == lastOp'.call
          ByMarker(o) ==
            /\ lastOp'.op \in {"prompt", "promptResume"}
            /\ calls'[p].session = o
            /\ detectPermissionMode(extractTextBlocks(calls'[p].prompt)) # "none"
      IN  /\ Len(sessionState') >= Len(sessionState)
          /\ \A o \in 1 .. Len(sessionState) :
               sessionState'[o].permissionMode # sessionState[o].permissionMode
                 => ByMarker(o)
          /\ \A id \in DOMAIN sessions \cap DOMAIN sessions' :
               sessionState'[sessions'[id]].permissionMode #
                 sessionState[sessions[id]].permissionMode
                 => ByMarker(sessions'[id]) ]_vars

\* a prompt without a marker has started its query with the mode an earlier
\* prompt's marker set, stream messages handled in between
C10_Witness ==
  /\ defaultPermissionMode = "default"
  /\ \E c, d \in Calls :
       /\ c < d
       /\ calls[c].session = calls[d].session
       /\ detectPermissionMode(PromptText(c)) = "acceptEdits"
       /\ detectPermissionMode(PromptText(d)) = "none"
       /\ calls[d].pc = "racing"
       /\ calls[d].query.permissionMode = "acceptEdits"
       /\ sessionState[calls[d].session].messageCount > 0

\* after a cancel, one more cancel on the same id changes nothing
CancelSettled ==
  lastOp.op = "cancel" => cancel(World, lastOp.sessionId) = World

\* C11: cancel on a session of the registry that has no active query (no
\* stream handle, no controller) emits no update and changes neither the
\* session, nor a text buffer, nor the registry, nor a token, nor a call; and
\* in the state any cancel leaves, one more cancel on the same id changes
\* nothing.
C11_CancelIdleNoOp ==
  [][ lastOp'.op = "cancel" =>
        LET id == lastOp'.sessionId
        IN  /\ ( /\ id \in DOMAIN sessions
                 /\ ~isActive(sessionState[sessions[id]]) )
               => /\ UNCHANGED <<sessions, sessionState, textBuffers,
                                 aborted, calls>>
                  /\ updates' = <<>>
            /\ CancelSettled' ]_vars

\* a cancel has just returned on a session that handled messages, whose
\* prompt returned, and whose text buffer still holds text
C11_Witness ==
  /\ lastOp.op = "cancel"
  /\ lastOp.sessionId \in DOMAIN sessions
  /\ ~isActive(sessionState[sessions[lastOp.sessionId]])
  /\ sessionState[sessions[lastOp.sessionId]].messageCount > 0
  /\ lastOp.sessionId \in DOMAIN textBuffers
  /\ textBuffers[lastOp.sessionId].buf # <<>>
  /\ \E c \in Calls : calls[c].stopReason = "end_turn"

\* no prompt call is in progress on SessionState object o
Quiet(o) ==
  \A c \in Calls :
    calls[c].session = o => calls[c].pc \notin {"thinking", "notice", "racing"}

\* C12: a run of the idle sweep removes every registered session that has
\* no active query (no prompt in progress on it, or no handle of one) and
\* has been idle longer than the TTL, and keeps every session that has been
\* idle for the TTL or less.
C12_SweepByTtl ==
  [][ lastOp'.op = "sessionGc" =>
        \A id \in DOMAIN sessions :
          LET o == sessions[id]
              s == sessionState[o]
          IN  /\ ( /\ Quiet(o) \/ ~isActive(s)
                   /\ s.idle > sessionTtlMs )
                 => id \notin DOMAIN sessions'
              /\ s.idle <= sessionTtlMs
                 => /\ id \in DOMAIN sessions'
                    /\ sessions'[id] = o ]_vars

\* a sweep has just removed the session of a prompt that returned and kept
\* another session, on which a prompt waits for its query
C12_Witness ==
  /\ lastOp.op = "sessionGc"
  /\ uuids = 1
  /\ "s1" \notin DOMAIN sessions
  /\ "x1" \in DOMAIN sessions
  /\ \E c, d \in Calls :
       /\ calls[c].sessionId = "s1" /\ calls[c].stopReason = "end_turn"
       /\ calls[d].sessionId = "x1" /\ calls[d].pc = "racing"

\* C13: an entry leaves the registry, or is replaced, only in a run of the
\* idle sweep that finds the session idle longer than the TTL with no query
\* in flight (no prompt on it that started its query and has not returned).
C13_RemovedOnlyBySweep ==
  [][ \A id \in DOMAIN sessions :
        LET o == sessions[id]
        IN  (id \notin DOMAIN sessions' \/ sessions'[id] # o)
            => /\ lastOp'.op = "sessionGc"
               /\ id \notin DOMAIN sessions'
               /\ sessionState[o].idle > sessionTtlMs
               /\ \A c \in Calls :
                    calls[c].session = o => calls[c].pc # "racing" ]_vars

\* after a loadSession, one more loadSession of the same id changes nothing
LoadSettled ==
  lastOp.op = "loadSession" => loadSession(World, lastOp.sessionId) = World

\* C14: loadSession of an id outside the registry adds one entry for it, a
\* fresh SessionState (no handle, no upstream conversation id, messageCount
\* 0, just active) with the default permission mode, and changes nothing
\* else; loadSession of a registered id changes nothing at all; in both
\* cases a second loadSession of the id changes nothing.
C14_LoadSessionIdempotent ==
  [][ lastOp'.op = "loadSession" =>
        LET id == lastOp'.sessionId
            fresh == [pendingPrompt |-> Null, abortController |-> Null,
                      claudeSessionId |-> Undefined,
                      permissionMode |-> defaultPermissionMode,
                      messageCount |-> 0, idle |-> 0]
        IN  /\ UNCHANGED <<textBuffers, aborted, calls>>
            /\ updates' = <<>>
            /\ id \in DOMAIN sessions => UNCHANGED <<sessions, sessionState>>
            /\ id \notin DOMAIN sessions =>
                 /\ sessionState' = Append(sessionState, fresh)
                 /\ DOMAIN sessions' = DOMAIN sessions \cup {id}
                 /\ sessions'[id] = Len(sessionState')
                 /\ \A x \in DOMAIN sessions : sessions'[x] = sessions[x]
            /\ LoadSettled' ]_vars

\* a loadSession has just returned on a session that was loaded afresh after
\* a sweep, while a prompt waits for its query on it
C14_Witness ==
  /\ lastOp.op = "loadSession"
  /\ Len(sessionState) = 2
  /\ lastOp.sessionId \in DOMAIN sessions
  /\ sessions[lastOp.sessionId] = 2
  /\ \E c \in Calls : calls[c].session = 2 /\ calls[c].pc = "racing"

\* C15: newSession adds to the registry one id that was not in it, mapped to
\* a fresh SessionState (no handle, no upstream conversation id, messageCount
\* 0, just active) with the default permission mode, and leaves every other
\* entry, every existing SessionState, the buffers, tokens and calls
\* unchanged.
C15_NewSessionFresh ==
  [][ lastOp'.op = "newSession" =>
        LET id == lastOp'.sessionId
            fresh == [pendingPrompt |-> Null, abortController |-> Null,
                      claudeSessionId |-> Undefined,
                      permissionMode |-> defaultPermissionMode,
                      messageCount |-> 0, idle |-> 0]
        IN  /\ id \notin DOMAIN sessions
            /\ DOMAIN sessions' = DOMAIN sessions \cup {id}
            /\ sessionState' = Append(sessionState, fresh)
            /\ sessions'[id] = Len(sessionState')
            /\ \A x \in DOMAIN sessions : sessions'[x] = sessions[x]
            /\ UNCHANGED <<textBuffers, aborted, calls>>
            /\ updates' = <<>> ]_vars

\* newSession has just returned while another session of the registry, idle
\* for a while, has a prompt waiting for its query
C15_Witness ==
  /\ lastOp.op = "newSession"
  /\ Len(sessionState) = 2
  /\ "x1" \in DOMAIN sessions
  /\ sessionState[sessions["x1"]].idle > 0
  /\ sessionState[sessions[lastOp.sessionId]].permissionMode = "bypassPermissions"
  /\ \E c \in Calls : calls[c].sessionId = "x1" /\ calls[c].pc = "racing"

\* the text a session's buffer holds, none when it has no buffer
Buffered(tb, id) == IF id \in DOMAIN tb THEN tb[id].buf ELSE <<>>

\* the buffered-text chunks a sequence of updates holds for a session
TextChunks(us, id) ==
  {i \in 1 .. Len(us) : /\ us[i].sessionId = id
                        /\ us[i].sessionUpdate = "agent_message_chunk"
                        /\ ~IsSystemError(us[i])}

\* C16: in every step and for every session, either the step emits exactly
\* one text chunk, whose payload is all the text appended to the buffer
\* since the last flush, in append order, and the buffer is empty afterwards;
\* or it emits no text chunk and the buffer keeps what it held, in order,
\* with at most one new text appended at its end.
C16_FlushConcatenation ==
  [][ \A id \in SessionIds :
        LET B == Buffered(textBuffers, id)
            BB == Buffered(textBuffers', id)
            E == TextChunks(updates', id)
        IN  /\ Cardinality(E) <= 1
            /\ \A i \in E : /\ B # <<>>
                            /\ updates'[i].text = B
                            /\ BB = <<>>
            /\ E = {} =>
                 /\ Len(BB) \in {Len(B), Len(B) + 1}
                 /\ SubSeq(BB, 1, Len(B)) = B
                 /\ \A j \in 1 .. Len(B) : Len(BB) > Len(B) => B[j] # BB[Len(BB)]
      ]_vars

\* one chunk has just been emitted that concatenates the thinking banner of
\* a prompt and the texts of two stream messages
C16_Witness ==
  \E i \in 1 .. Len(updates) :
    /\ updates[i].sessionUpdate = "agent_message_chunk"
    /\ Len(updates[i].text) = 3
    /\ updates[i].text[1].what = "thinking"
    /\ updates[i].text[2] = Piece(updates[i].text[1].call, "text", 1)
    /\ updates[i].text[3] = Piece(updates[i].text[1].call, "text", 2)

\* C17: when an update derived from the n-th message of a query is emitted,
\* every update derived from an earlier message of that query has been
\* emitted: no text of an earlier message of the query is still waiting in
\* the session's buffer.
C17_UpdatesInStreamOrder ==
  \A i \in 1 .. Len(updates) :
    updates[i].sessionUpdate = "tool_call_update" =>
      LET B == updates[i].text[1]
          buf == Buffered(textBuffers, updates[i].sessionId)
      IN  \A j \in 1 .. Len(buf) :
            ~ ( /\ buf[j].call = B.call
                /\ buf[j].what = "text"
                /\ buf[j].n < B.n )

\* the calls of whose stream messages a sequence of updates carries a text
\* or a tool result
Emitters(us) ==
  UNION { { us[i].text[j].call :
              j \in {k \in 1 .. Len(us[i].text) :
                       us[i].text[k].what \in {"text", "tool_completed"}} } :
          i \in 1 .. Len(us) }

\* C18: the step in which the stream loop of a query observes the fired
\* token (a message arrives and the loop is left) emits no update that
\* carries a text or a tool result of that query.
C18_SilentOnceCancelled ==
  \A c \in Calls :
    ( /\ lastOp = Op("streamMessage", calls[c].sessionId, c)
      /\ calls[c].proc = "finished" )
    => c \notin Emitters(updates)

\* C19: for a text whose UTF-8 length exceeds maxBytes, the result of
\* truncateLargeText (kept prefix and suffix together) has a UTF-8 length of
\* at most maxBytes.
C19_TruncatedWithinBudget ==
  ( /\ truncation.pc \in {"once", "twice"}
    /\ byteLength(truncation.input) > truncation.maxBytes )
  => byteLength(truncation.output) <= truncation.maxBytes

\* C20: truncateLargeText applied to its own result, with the same maxBytes,
\* returns that result.
C20_TruncateIdempotent ==
  truncation.pc = "twice" => truncation.again = truncation.output

\* slice(str, end) ends between the two code units of a surrogate pair
splitsCharacter(str, end) ==
  /\ end >= 1
  /\ end < Len(str)
  /\ str[end] = HighSurrogate
  /\ str[end + 1] = LowSurrogate

\* the largest end' <= end at which the prefix of str fits into maxBytes and
\* splits no character
RECURSIVE longestPrefix(_, _, _)
longestPrefix(str, end, maxBytes) ==
  IF end = 0 THEN 0
  ELSE IF /\ ~splitsCharacter(str, end)
          /\ byteLength(slice(str, end)) <= maxBytes
       THEN end
       ELSE longestPrefix(str, end - 1, maxBytes)

\* C21: truncateLargeText returns a text whose UTF-8 length is within
\* maxBytes unchanged; for a longer text it returns the longest prefix that
\* fits into maxBytes without splitting a character, followed by the suffix
\* that states the input's byte length minus the byte length of that prefix.
C21_LongestWholePrefix ==
  truncation.pc \in {"once", "twice"} =>
    LET input == truncation.input
        maxBytes == truncation.maxBytes
        kept == slice(input, longestPrefix(input, Len(input), maxBytes))
    IN  IF byteLength(input) <= maxBytes
        THEN truncation.output = input
        ELSE truncation.output =
               kept \o truncationSuffix(byteLength(input) - byteLength(kept))

\* C22: after the constructor, timeoutMs is the number ACP_TIMEOUT_MS spells,
\* clamped to [1000, 600000] (1000 for a number below 1000, 600000 for a
\* number above 600000), and 60000 when the variable is unset, empty or
\* spells no number; it is always within [1000, 600000].
C22_TimeoutClamped ==
  timeoutMs # 0 =>
    LET n == Number(ACP_TIMEOUT_MS.text)
    IN  /\ timeoutMs >= 1000
        /\ timeoutMs <= 600000
        /\ timeoutMs = IF \/ ~ACP_TIMEOUT_MS.set
                          \/ ACP_TIMEOUT_MS.text = <<>>
                          \/ ~n.finite
                       THEN 60000
                       ELSE IF n.value < 1000 THEN 1000
                       ELSE IF n.value > 600000 THEN 600000
                       ELSE n.value

\* README, ACP_TEXT_BUFFER_FLUSH_BYTES: the immediate-flush threshold
TextBufferFlushBytes == 2048
\* UTF-8 length of the text each text message of the streams carries
TextMessageBytes == 1024

\* bytes of stream text a buffer content holds (banners not counted)
RECURSIVE streamTextBytes(_)
streamTextBytes(buf) ==
  IF buf = <<>> THEN 0
  ELSE (IF Head(buf).what = "text" THEN TextMessageBytes ELSE 0)
         + streamTextBytes(Tail(buf))

\* C23: no step leaves a session's buffer holding as many bytes as the
\* immediate-flush threshold: an append that reaches the threshold flushes
\* the buffer in the same step instead of leaving it to the flush timer.
C23_FlushedAtThreshold ==
  \A id \in SessionIds :
    streamTextBytes(Buffered(textBuffers, id)) < TextBufferFlushBytes

\* the rules of the tool-kind mapping, in their stated order
ToolKindRules ==
  << [kind |-> "read",
      words |-> {<<"r", "e", "a", "d">>, <<"v", "i", "e", "w">>, <<"g", "e", "t">>}],
     [kind |-> "edit",
      words |-> {<<"w", "r", "i", "t", "e">>, <<"c", "r", "e", "a", "t", "e">>, <<"u", "p", "d", "a", "t", "e">>, <<"e", "d", "i", "t">>}],
     [kind |-> "delete",
      words |-> {<<"d", "e", "l", "e", "t", "e">>, <<"r", "e", "m", "o", "v", "e">>}],
     [kind |-> "move",
      words |-> {<<"m", "o", "v", "e">>, <<"r", "e", "n", "a", "m", "e">>}],
     [kind |-> "search",
      words |-> {<<"s", "e", "a", "r", "c", "h">>, <<"f", "i", "n", "d">>, <<"g", "r", "e", "p">>}],
     [kind |-> "execute",
      words |-> {<<"r", "u", "n">>, <<"e", "x", "e", "c", "u", "t", "e">>, <<"b", "a", "s", "h">>}],
     [kind |-> "think",
      words |-> {<<"t", "h", "i", "n", "k">>, <<"p", "l", "a", "n">>, <<"t", "o", "d", "o">>}],
     [kind |-> "fetch",
      words |-> {<<"f", "e", "t", "c", "h">>, <<"d", "o", "w", "n", "l", "o", "a", "d">>, <<"w", "e", "b">>}] >>

\* rule i matches the name: one of its words occurs in it, whatever the case
ruleMatches(i, name) ==
  \E w \in ToolKindRules[i].words : includes(toLowerCase(name), w)

\* the kind of the first rule that matches, other when none does
firstMatchKind(name) ==
  IF \E i \in 1 .. Len(ToolKindRules) : ruleMatches(i, name)
  THEN ToolKindRules[CHOOSE i \in 1 .. Len(ToolKindRules) :
                       /\ ruleMatches(i, name)
                       /\ \A j \in 1 .. (i - 1) : ~ruleMatches(j, name)].kind
  ELSE "other"

\* C24: the kind of a tool_call update is the kind of the first rule, in the
\* stated order, one of whose words occurs in the tool name whatever the
\* case; and it is read for ReadFile, think for TodoWrite, execute for Bash,
\* fetch for WebFetch and other for UnknownTool123.
C24_ToolKindMapping ==
  toolCall.pc = "sent" =>
    /\ toolCall.kind = firstMatchKind(toolCall.title)
    /\ toolCall.title = <<"R", "e", "a", "d", "F", "i", "l", "e">> => toolCall.kind = "read"
    /\ toolCall.title = <<"T", "o", "d", "o", "W", "r", "i", "t", "e">>
         => toolCall.kind = "think"
    /\ toolCall.title = <<"B", "a", "s", "h">> => toolCall.kind = "execute"
    /\ toolCall.title = <<"W", "e", "b", "F", "e", "t", "c", "h">>
         => toolCall.kind = "fetch"
    /\ toolCall.title = <<"U", "n", "k", "n", "o", "w", "n", "T", "o", "o", "l", "1", "2", "3">>
         => toolCall.kind = "other"

\* the active-query handle of a SessionState is empty
HandleEmpty(s) == s.pendingPrompt = Null /\ s.abortController = Null

\* C25: after every step, a SessionState on which no prompt call is in
\* progress has an empty active-query handle (pendingPrompt and
\* abortController both null); and the step in which a prompt call returns,
\* with end_turn or with cancelled, leaves the handle of its session empty.
C25_HandleEmptyWhenQuiet ==
  [][ /\ \A o \in 1 .. Len(sessionState') :
           Quiet(o)' => HandleEmpty(sessionState'[o])
      /\ \A c \in Calls :
           ( /\ calls[c].pc # "done"
             /\ calls'[c].pc = "done"
             /\ calls'[c].stopReason \in {"end_turn", "cancelled"} )
           => HandleEmpty(sessionState'[calls'[c].session]) ]_vars

\* a prompt has just returned cancelled on a session where another prompt
\* returned end_turn, no prompt being in progress on it any more
C25_Witness ==
  \E c, d \in Calls :
    /\ lastOp.call = c
    /\ calls[c].stopReason = "cancelled"
    /\ calls[d].stopReason = "end_turn"
    /\ calls[d].session = calls[c].session
    /\ Quiet(calls[c].session)
    /\ sessionState[calls[c].session].messageCount > 0

\* C26: in the step in which a prompt that raced its query against the
\* timeout timer returns, the timer is no longer pending; and when the step
\* is the timer firing, the token the query was started with is fired.
C26_RaceLoserCleanedUp ==
  [][ \A c \in Calls :
        ( /\ calls[c].pc = "racing"
          /\ calls'[c].pc = "done" )
        => /\ calls'[c].timeoutHandle # "pending"
           /\ lastOp'.op = "timeout" => calls[c].query.signal \in aborted' ]_vars

\* C27: in every state, every text buffer holds text if and only if its
\* flush timer is set; an empty buffer has no timer.
C27_TextIffTimer ==
  \A id \in DOMAIN textBuffers :
    textBuffers[id].buf # <<>> <=> textBuffers[id].timer

\* the flush timer has just fired and emptied the buffer of a session whose
\* prompt still waits on its query
C27_Witness ==
  /\ lastOp.op = "flushTimer"
  /\ lastOp.sessionId \in DOMAIN textBuffers
  /\ textBuffers[lastOp.sessionId].buf = <<>>
  /\ ~textBuffers[lastOp.sessionId].timer
  /\ updates # <<>>
  /\ \E c \in Calls : /\ calls[c].sessionId = lastOp.sessionId
                       /\ calls[c].pc = "racing"
                       /\ calls[c].yielded > 0

\* C28: for every session a run of the idle sweep evicts, the run emits the
\* text its buffer held as exactly one chunk, and no chunk when it held
\* none; after the run the session has no registry entry and no text-buffer
\* entry (hence no flush timer).
C28_EvictionFlushes ==
  [][ lastOp'.op = "sessionGc" =>
        \A id \in DOMAIN sessions \ DOMAIN sessions' :
          LET B == Buffered(textBuffers, id)
              E == TextChunks(updates', id)
          IN  /\ id \notin DOMAIN textBuffers'
              /\ B = <<>> => E = {}
              /\ B # <<>> => /\ Cardinality(E) = 1
                             /\ \A i \in E : updates'[i].text = B ]_vars

\* a sweep has just evicted a session and emitted the text of a stream
\* message its buffer held
C28_Witness ==
  /\ lastOp.op = "sessionGc"
  /\ sessions = << >>
  /\ textBuffers = << >>
  /\ Len(updates) = 1
  /\ updates[1].sessionUpdate = "agent_message_chunk"
  /\ \E j \in 1 .. Len(updates[1].text) : updates[1].text[j].what = "text"

\* C29: in every step the messageCount of a SessionState grows by one when
\* the step is the stream loop of a query of that session processing a
\* message, and stays as it is in every other step, the step in which a
\* message is read and the loop is left on the fired token included; so it
\* never decreases.
C29_MessageCountCounts ==
  [][ \A o \in 1 .. Len(sessionState) :
        LET processed == /\ lastOp'.op = "streamMessage"
                         /\ calls'[lastOp'.call].session = o
                         /\ calls'[lastOp'.call].proc = "running"
        IN  sessionState'[o].messageCount =
              sessionState[o].messageCount + (IF processed THEN 1 ELSE 0) ]_vars

\* the loop of a query has processed one message and has just read a second
\* one and left on the fired token, the session being registered
C29_Witness ==
  \E c \in Calls :
    /\ lastOp = Op("streamMessage", calls[c].sessionId, c)
    /\ calls[c].proc = "finished"
    /\ calls[c].yielded = 2
    /\ calls[c].sessionId \in DOMAIN sessions
    /\ sessions[calls[c].sessionId] = calls[c].session
    /\ sessionState[calls[c].session].messageCount = 1

\* C30: a SessionState holds no conversation id as long as no message was
\* processed for it, and its conversation id changes only when a stream loop
\* of the session processes a message, to an id a message can carry; the
\* step that starts the query of a prompt starts it with resume equal to the
\* conversation id the session holds then, so without resume for the first
\* prompt of a session.
C30_ResumeLatestConversation ==
  [][ /\ \A o \in 1 .. Len(sessionState') :
           sessionState'[o].messageCount = 0
             => sessionState'[o].claudeSessionId = Undefined
      /\ \A o \in 1 .. Len(sessionState) :
           sessionState'[o].claudeSessionId # sessionState[o].claudeSessionId
             => /\ lastOp'.op = "streamMessage"
                /\ calls'[lastOp'.call].session = o
                /\ calls'[lastOp'.call].proc = "running"
                /\ sessionState'[o].claudeSessionId # Undefined
      /\ \A c \in Calls :
           ( /\ calls[c].pc # "racing"
             /\ calls'[c].pc = "racing" )
           => /\ calls'[c].query.resume =
                   sessionState[calls'[c].session].claudeSessionId
              /\ sessionState'[calls'[c].session].claudeSessionId =
                   sessionState[calls'[c].session].claudeSessionId
              /\ sessionState[calls'[c].session].messageCount = 0
                   => calls'[c].query.resume = Undefined ]_vars

\* the first prompt of a session started its query without resume; its
\* stream named conv1 and then conv2, and a later prompt of the session has
\* started its query with resume conv2
C30_Witness ==
  \E c, d \in Calls :
    /\ c < d
    /\ calls[c].session = calls[d].session
    /\ calls[c].query.signal # Null
    /\ calls[c].query.resume = Undefined
    /\ calls[c].yielded = 2
    /\ calls[d].pc = "racing"
    /\ calls[d].query.resume = "conv2"

\* two sessions side by side, no idle sweep: prompts, cancels, stream
\* messages and flush timers on both; no thinking banner
NextPair ==
  \/ NewSession
  \/ \E id \in SessionIds : LoadSession(id)
  \/ \E c \in Calls, id \in SessionIds : \E p \in PlainPrompts : Prompt(c, id, p)
  \/ \E id \in SessionIds : Cancel(id)
  \/ Upstream(UpstreamMessages, {ExitErr}, MaxMsgs)
  \/ Timers

SpecPair == InitGc /\ [][NextPair]_vars

\* the operations that act on one session, named in lastOp with its id
SessionOps ==
  {"prompt", "promptResume", "cancel", "loadSession", "streamMessage",
   "streamEnd", "streamThrow", "timeout", "flushTimer"}

\* C31: a step that runs an operation on one session (prompt, cancel,
\* loadSession, a stream message, end or failure, the timeout, a buffer
\* flush) leaves every other registered session as it was: its registry
\* entry, its SessionState (permissionMode, pendingPrompt, abortController,
\* messageCount, claudeSessionId, idle time) and its text buffer with its
\* timer; and the step emits no update tagged with the other session's id.
C31_OtherSessionsUntouched ==
  [][ lastOp'.op \in SessionOps =>
        \A B \in DOMAIN sessions \ {lastOp'.sessionId} :
          /\ B \in DOMAIN sessions'
          /\ sessions'[B] = sessions[B]
          /\ sessionState'[sessions[B]] = sessionState[sessions[B]]
          /\ B \in DOMAIN textBuffers' <=> B \in DOMAIN textBuffers
          /\ B \in DOMAIN textBuffers => textBuffers'[B] = textBuffers[B]
          /\ \A i \in 1 .. Len(updates') : updates'[i].sessionId # B ]_vars

\* cancel has just stopped the prompt of one session while the prompt of
\* another session waits on its query, has processed a message and holds
\* text in its buffer
C31_Witness ==
  \E c, d \in Calls :
    /\ lastOp = Op("cancel", calls[c].sessionId, 0)
    /\ calls[c].pc = "racing"
    /\ c \in aborted
    /\ calls[d].pc = "racing"
    /\ calls[d].sessionId # calls[c].sessionId
    /\ calls[d].sessionId \in DOMAIN sessions
    /\ d \notin aborted
    /\ sessionState[calls[d].session].pendingPrompt = d
    /\ sessionState[calls[d].session].messageCount = 1
    /\ Buffered(textBuffers, calls[d].sessionId) # <<>>

\* Spec where the event loop keeps running: a timer that is pending fires,
\* and a prompt() that awaits an agent-side promise (sendTextContent) is
\* resumed.  Nothing is assumed of the upstream streams.
Fairness ==
  \A c \in Calls : WF_vars(Timeout(c)) /\ WF_vars(PromptResume(c))

\* default permission configuration, with the thinking banner
InitLive ==
  /\ InitOne
  /\ showThinking

\* prompts and cancels on one session, streams that yield at most one
\* message in all, end, fail, or do nothing at all
NextLive ==
  \/ Client(UuidSet, UuidSet, PlainPrompts)
  \/ Upstream(UpstreamMessages, {ExitErr}, MaxMsgsGc)
  \/ Timers

SpecLive == InitLive /\ [][NextLive]_vars /\ Fairness

\* C32: every prompt call that found its session in the registry eventually
\* returns a stop reason (end_turn or cancelled), whatever its upstream
\* stream does, a stream that never yields and never ends included.
C32_PromptReturns ==
  \A c \in Calls :
    (calls[c].session # Null)
      ~> ( /\ calls[c].pc = "done"
           /\ calls[c].stopReason \in {"end_turn", "cancelled"} )

\* a prompt has returned end_turn on its timeout timer while its upstream
\* stream, which yielded nothing, is still open
C32_Witness ==
  \E c \in Calls :
    /\ lastOp = Op("timeout", calls[c].sessionId, c)
    /\ calls[c].pc = "done"
    /\ calls[c].stopReason = "end_turn"
    /\ calls[c].timeoutHandle = "fired"
    /\ calls[c].proc = "running"
    /\ calls[c].stream = "open"
    /\ calls[c].yielded = 0

\* C33: while a prompt waits on its query and the token the query was
\* started with has not been fired, the active-query handle of its session
\* holds that query: pendingPrompt is its stream and abortController is its
\* controller.
C33_HandleHeldInFlight ==
  \A c \in Calls :
    ( /\ calls[c].pc = "racing"
      /\ calls[c].query.signal \notin aborted )
    => /\ sessionState[calls[c].session].abortController = calls[c].query.signal
       /\ sessionState[calls[c].session].pendingPrompt = c

\* the pieces of text a sequence of updates carries
UpdatePieces(us) ==
  UNION { {us[i].text[j] : j \in 1 .. Len(us[i].text)} : i \in 1 .. Len(us) }

\* the pieces of text the buffers hold
BufferPieces(tb) ==
  UNION { {tb[id].buf[j] : j \in 1 .. Len(tb[id].buf)} : id \in DOMAIN tb }

\* C34: a message that the stream of a prompt yields after the prompt call
\* has returned (end_turn or cancelled) is not processed: the step leaves
\* messageCount and the conversation id of the prompt's SessionState as they
\* were, and no update or buffered text is derived from the message.
C34_NoDrainAfterReturn ==
  [][ \A c \in Calls :
        ( /\ calls[c].pc = "done"
          /\ calls[c].stopReason \in {"end_turn", "cancelled"}
          /\ lastOp' = Op("streamMessage", calls[c].sessionId, c) )
        => LET o == calls[c].session
           IN  /\ sessionState'[o].messageCount = sessionState[o].messageCount
               /\ sessionState'[o].claudeSessionId = sessionState[o].claudeSessionId
               /\ \A p \in UpdatePieces(updates') \cup BufferPieces(textBuffers') :
                    ~ (p.call = c /\ p.n = calls'[c].yielded
                         /\ p.what \in {"text", "tool_completed"}) ]_vars

\* C35: in the step in which a prompt call returns (end_turn or cancelled),
\* no text queued by that prompt (banner, notice, text of its stream) is left
\* in a text buffer: all of it has been emitted, and none of it can be
\* emitted after the stop reason or after the error message of the step.
C35_BufferEmptyAtReturn ==
  [][ \A c \in Calls :
        ( /\ calls[c].pc # "done"
          /\ calls'[c].pc = "done"
          /\ calls'[c].stopReason \in {"end_turn", "cancelled"} )
        => \A p \in BufferPieces(textBuffers') : p.call # c ]_vars

\* C36: after every step, every text-buffer entry (and so every flush
\* timer) belongs to a session id that is in the registry, and every update
\* the step emitted is tagged with an id that is in the registry, or that
\* the step, being a run of the idle sweep, has just evicted.
C36_NothingForEvictedIds ==
  [][ /\ \A id \in DOMAIN textBuffers' : id \in DOMAIN sessions'
      /\ \A i \in 1 .. Len(updates') :
           \/ updates'[i].sessionId \in DOMAIN sessions'
           \/ /\ lastOp'.op = "sessionGc"
              /\ updates'[i].sessionId \in DOMAIN sessions ]_vars

====
